---- MODULE Spec2Model ----
(***************************************************************************)
(* A model of the grammar-combinator engine of src/src/index.ts:           *)
(* ParserRule with its recursion guard, the combinators of ParserUtils,    *)
(* repInternal, concatInternal, and the driver Parser.parse.               *)
(*                                                                         *)
(* The recursive descent is modelled as an explicit call stack (frames):   *)
(* one frame per active ParserRule.parse invocation, one step per call a   *)
(* parse function makes or per return, so that a parse that never returns  *)
(* is an infinite behaviour of the model.                                  *)
(***************************************************************************)
EXTENDS Integers, Sequences, FiniteSets, TLC

VARIABLES grammar, rules, input, pc, rootIdx, best, frames, ret, outcome,
          lastCall, lastReturn, log

vars == <<grammar, rules, input, pc, rootIdx, best, frames, ret, outcome,
          lastCall, lastReturn, log>>

(***************************************************************************)
(* Bounds of the model.                                                    *)
(***************************************************************************)
\* the longest token sequence handed to Parser.parse
MaxLen == 3

\* A repetition over n tokens whose iterations each consume a token holds at
\* most n values, and makes at most 2n + 3 calls; the arrays of a frame are
\* tracked exactly up to these sizes.  A frame that pushes beyond them has
\* performed an iteration that consumed nothing, which it repeats unchanged.
MaxResults == MaxLen + 1
MaxCalls == 2 * MaxLen + 3

Range(s) == {s[i] : i \in 1..Len(s)}

Front(s) == SubSeq(s, 1, Len(s) - 1)

(***************************************************************************)
(* Tokens (produced by the external lexer): a key and its data.            *)
(***************************************************************************)
Token(key, data) == [key |-> key, data |-> data]

Tokens == {Token("digit", "1"), Token("digit", "2"),
           Token("letter", "x"), Token("sep", ",")}

RECURSIVE SeqsUpTo(_, _)
SeqsUpTo(S, n) ==
    IF n = 0 THEN {<<>>}
    ELSE LET shorter == SeqsUpTo(S, n - 1)
         IN  shorter \cup {Append(s, t) : s \in shorter, t \in S}

Inputs == SeqsUpTo(Tokens, MaxLen)

(***************************************************************************)
(* Values produced by rules.  Every value has the same shape so that any   *)
(* two values can be compared: a tag, a scalar and a list of items.        *)
(***************************************************************************)
Undefined == [tag |-> "undefined", data |-> "", items |-> <<>>]

Data(d) == [tag |-> "data", data |-> d, items |-> <<>>]

Array(vs) == [tag |-> "array", data |-> "", items |-> vs]

\* OptResult: { success: true, value } | { success: false, value: undefined }
OptResult(success, v) ==
    [tag |-> "opt", data |-> IF success THEN "true" ELSE "false", items |-> <<v>>]

\* ParseResult | undefined
NoResult == [some |-> FALSE, value |-> Undefined, end |-> 0]

ParseResult(v, e) == [some |-> TRUE, value |-> v, end |-> e]

\* The functions handed to map / filter / filterMap by the grammars below.
ApplyFn(f, v) ==
    CASE f = "wrap" -> Array(<<v>>)
      [] f = "count" -> Data(ToString(Len(v.items)))
      [] OTHER -> v

\* JavaScript truthiness of the predicate's result
Truthy(f, v) ==
    CASE f = "isOne" -> v = Data("1")
      [] f = "nonEmpty" -> v.items # <<>>
      [] OTHER -> TRUE

(***************************************************************************)
(* ParserRule: a name and its parseInternal function.  The function is     *)
(* represented by the combinator that built it and what it closed over.    *)
(***************************************************************************)
Fn(op, k, subs, min, hasMax, max) ==
    [op |-> op, k |-> k, subs |-> subs, min |-> min, hasMax |-> hasMax, max |-> max]

ParserRule(name, parseInternal) == [name |-> name, fn |-> parseInternal]

\* a renaming that hands back the rule it was given
withNameSame(rule, name) == rule

withName(rule, name) == ParserRule(name, rule.fn)

\* rules.map((r) => r.name).join(", ")
RECURSIVE JoinNames(_)
JoinNames(rs) ==
    IF rs = <<>> THEN ""
    ELSE IF Len(rs) = 1 THEN rs[1].name
    ELSE rs[1].name \o ", " \o JoinNames(Tail(rs))

\* the stack item `${this.name}:${start}`
StackItem(rule, start) == rule.name \o ":" \o ToString(start)

repInternal(rule, sep, min, hasMax, max) ==
    LET subNames == IF sep # <<>> THEN rule.name \o ", " \o sep[1].name ELSE rule.name
        name == IF ~hasMax
                THEN IF min = 0 THEN "star(" \o subNames \o ")"
                     ELSE IF min = 1 THEN "plus(" \o subNames \o ")"
                     ELSE "rep(" \o subNames \o ", " \o ToString(min) \o ")"
                ELSE "rep(" \o subNames \o ", " \o ToString(min) \o ", "
                        \o ToString(max) \o ")"
    IN  ParserRule(name, Fn("rep", "", <<rule>> \o sep, min, hasMax, max))

concatInternal(rs) ==
    ParserRule("concat(" \o JoinNames(rs) \o ")", Fn("concat", "", rs, 0, FALSE, 0))

not(rule) == ParserRule("not(" \o rule.name \o ")", Fn("not", "", <<rule>>, 0, FALSE, 0))

or(options) ==
    ParserRule("or(" \o JoinNames(options) \o ")", Fn("or", "", options, 0, FALSE, 0))

orLongest(options) ==
    ParserRule("orLongest(" \o JoinNames(options) \o ")",
               Fn("orLongest", "", options, 0, FALSE, 0))

concat(rs) == concatInternal(rs)

\* concat.name.replace("concat", "first"): the name starts with "concat"
first(rs) ==
    ParserRule("first(" \o JoinNames(rs) \o ")",
               Fn("first", "", <<concatInternal(rs)>>, 0, FALSE, 0))

last(rs) ==
    ParserRule("last(" \o JoinNames(rs) \o ")",
               Fn("last", "", <<concatInternal(rs)>>, 0, FALSE, 0))

map(rule, f) ==
    ParserRule("map(" \o rule.name \o ", [function])", Fn("map", f, <<rule>>, 0, FALSE, 0))

filter(rule, f) ==
    ParserRule("filter(" \o rule.name \o ", [function])",
               Fn("filter", f, <<rule>>, 0, FALSE, 0))

filterMap(rule, f) ==
    ParserRule("filterMap(" \o rule.name \o ", [function])",
               Fn("filterMap", f, <<rule>>, 0, FALSE, 0))

opt(rule) == ParserRule("opt(" \o rule.name \o ")", Fn("opt", "", <<rule>>, 0, FALSE, 0))

star(rule) == repInternal(rule, <<>>, 0, FALSE, 0)

starSep(rule, sep) == repInternal(rule, <<sep>>, 0, FALSE, 0)

plus(rule) == repInternal(rule, <<>>, 1, FALSE, 0)

plusSep(rule, sep) == repInternal(rule, <<sep>>, 1, FALSE, 0)

rep(rule, min) == repInternal(rule, <<>>, min, FALSE, 0)

repMax(rule, min, max) == repInternal(rule, <<>>, min, TRUE, max)

repSepMax(rule, sep, min, max) == repInternal(rule, <<sep>>, min, TRUE, max)

token(k) == ParserRule("token(" \o k \o ")", Fn("token", k, <<>>, 0, FALSE, 0))

sub(k) == ParserRule("sub(" \o k \o ")", Fn("sub", k, <<>>, 0, FALSE, 0))

(***************************************************************************)
(* The grammars the model is run on: for each, the ordered root names and  *)
(* the mapping returned by the getRules builder.                           *)
(***************************************************************************)
Digit == token("digit")

Letter == token("letter")

Sep == token("sep")

TwoDigits == concat(<<Digit, Digit>>)

ThreeDigits == concat(<<Digit, Digit, Digit>>)

Digits1 == plus(Digit)

GrammarNames ==
    {"digits", "list", "bounds", "choice", "longest", "lookahead", "roots",
     "rename", "expr", "leftrec", "nested", "maybe", "skip", "adapters",
     "siblings", "greedy"}

Grammar(g) ==
    CASE g = "digits" ->
           [roots |-> <<"Digits">>,
            getRules |-> [Digits |-> rep(Digit, 1)]]
      [] g = "list" ->
           [roots |-> <<"List">>,
            getRules |-> [List |-> starSep(Digit, Sep)]]
      [] g = "bounds" ->
           [roots |-> <<"Pair", "Triple", "Many">>,
            getRules |-> [Pair |-> repMax(Digit, 0, 2),
                          Triple |-> repSepMax(Digit, Sep, 2, 2),
                          Many |-> rep(or(<<Digit, Letter>>), 2)]]
      [] g = "choice" ->
           [roots |-> <<"Or">>,
            getRules |-> [Or |-> or(<<TwoDigits, ThreeDigits, star(Letter)>>)]]
      [] g = "longest" ->
           [roots |-> <<"Longest">>,
            getRules |-> [Longest |-> orLongest(<<TwoDigits, ThreeDigits,
                                                  map(TwoDigits, "wrap"), Letter>>)]]
      [] g = "lookahead" ->
           [roots |-> <<"Item">>,
            getRules |-> [Item |-> concat(<<not(Letter), not(TwoDigits),
                                            star(or(<<Digit, Sep>>))>>)]]
      [] g = "roots" ->
           [roots |-> <<"A", "B", "L">>,
            getRules |-> [A |-> map(TwoDigits, "wrap"),
                          B |-> star(Digit),
                          L |-> orLongest(<<sub("A"), sub("B")>>)]]
      [] g = "rename" ->
           [roots |-> <<"X", "Y", "Z">>,
            getRules |-> [X |-> Digits1,
                          Y |-> concat(<<opt(Sep), Digits1>>),
                          Z |-> concat(<<opt(Sep), sub("X")>>)]]
      [] g = "expr" ->
           [roots |-> <<"E">>,
            getRules |-> [E |-> or(<<Digit,
                                     concat(<<Letter, sub("E")>>),
                                     concat(<<opt(Sep), sub("E")>>)>>)]]
      [] g = "leftrec" ->
           [roots |-> <<"E">>,
            getRules |-> [E |-> or(<<concat(<<sub("E"), Sep, Digit>>), Digit>>)]]
      [] g = "nested" ->
           [roots |-> <<"Z", "D">>,
            getRules |-> [Z |-> opt(not(star(or(<<
                                   first(<<map(filter(orLongest(<<Letter, sub("Z")>>),
                                                      "isOne"), "wrap"), Digit>>),
                                   Digit>>)))),
                          D |-> Digit]]
      [] g = "maybe" ->
           [roots |-> <<"S">>,
            getRules |-> [S |-> star(opt(Digit))]]
      [] g = "skip" ->
           [roots |-> <<"S">>,
            getRules |-> [S |-> starSep(or(<<Digit, not(Letter)>>), opt(Sep))]]
      [] g = "adapters" ->
           [roots |-> <<"F", "G">>,
            getRules |-> [F |-> filter(last(<<Digit, Digit>>), "isOne"),
                          G |-> map(filterMap(first(<<plus(Digit), Letter>>),
                                              "nonEmpty"), "count")]]
      [] g = "siblings" ->
           [roots |-> <<"S">>,
            getRules |-> [S |-> or(<<filter(Digit, "isOne"),
                                     filter(Digit, "nonEmpty"),
                                     concat(<<opt(Sep), opt(Sep), Letter>>)>>)]]
      [] g = "greedy" ->
           [roots |-> <<"G", "H">>,
            getRules |-> [G |-> concat(<<star(Digit), Digit>>),
                          H |-> last(<<opt(Letter), star(Digit), Sep>>)]]

(***************************************************************************)
(* Call frames.  A frame holds one invocation's arguments (rule, start,    *)
(* stack: the path parseInternal received, its own item included) and the  *)
(* locals of its parse function; `at` is "entry" before the first call and *)
(* "wait" when a call it made has returned its result in `ret`.            *)
(* `calls` records, for the claims, the calls the invocation has made:     *)
(* the rule called, the offset, and what it returned.                      *)
(***************************************************************************)
NewFrame(rule, start, stack) ==
    [rule |-> rule, start |-> start, stack |-> stack, at |-> "entry",
     phase |-> "", i |-> 0, end |-> start, cur |-> start,
     results |-> <<>>, longest |-> NoResult, calls |-> <<>>]

Top == frames[Len(frames)]

\* the frames with the running one replaced by f
WithTop(f) == [frames EXCEPT ![Len(frames)] = f]

\* results.push(value)
Push(results, v) == IF Len(results) < MaxResults THEN Append(results, v) ELSE results

Record(calls, c) == IF Len(calls) < MaxCalls THEN Append(calls, c) ELSE calls

\* a guard that only sees direct recursion
IncludesLastOnly(stack, stackItem) == stack # <<>> /\ stack[Len(stack)] = stackItem

\* stack.includes(stackItem)
Includes(stack, stackItem) == stackItem \in Range(stack)

(***************************************************************************)
(* What Parser.parse ends with: a returned value or a thrown Error.  An    *)
(* error is its message's fixed text and, in order, what the message       *)
(* interpolates.                                                           *)
(***************************************************************************)
Running == [kind |-> "none", message |-> "", detail |-> <<>>, value |-> Undefined]

Returned(v) == [kind |-> "return", message |-> "", detail |-> <<>>, value |-> v]

Error(message, detail) ==
    [kind |-> "error", message |-> message, detail |-> detail, value |-> Undefined]

\* JSON.stringify(token)
JSONstringify(tok) == [tag |-> "token", data |-> tok.key, items |-> <<Data(tok.data)>>]

\* `Loop detected:\n${stack.map((s) => `* ${s}`).join("\n")}\n> ${stackItem}`
LoopDetail(stack, stackItem) ==
    [i \in 1..Len(stack) |-> [tag |-> "*", data |-> stack[i], items |-> <<>>]]
        \o <<[tag |-> ">", data |-> stackItem, items |-> <<>>]>>

(***************************************************************************)
(* ParserRule.parse: the caller (whose frames are `base`) invokes `rule`   *)
(* at `start` with path `stack`.  A thrown Error unwinds every frame and   *)
(* Parser.parse: nothing in the source catches it.                         *)
(***************************************************************************)
Invoke(base, rule, start, stack, pcNext) ==
    LET stackItem == StackItem(rule, start)
    IN  /\ lastCall' = [rule |-> rule, start |-> start, stack |-> stack]
        /\ IF Includes(stack, stackItem)
           THEN /\ outcome' = Error("Loop detected:", LoopDetail(stack, stackItem))
                /\ frames' = <<>>
                /\ pc' = "done"
           ELSE /\ frames' = Append(base, NewFrame(rule, start, Append(stack, stackItem)))
                /\ pc' = pcNext
                /\ UNCHANGED outcome
        /\ UNCHANGED <<ret, lastReturn, log>>

\* the running frame calls rule.parse(input, start, stack) and waits
Call(f, rule, start) ==
    Invoke(WithTop([f EXCEPT !.at = "wait"]), rule, start, f.stack, pc)

\* a path kept in one array that every invocation pushes its item onto
ReturnSharingPath(result) ==
    LET f == Top
        below == Front(frames)
    IN  /\ frames' = IF below = <<>> THEN below
                     ELSE [below EXCEPT ![Len(below)].calls =
                              Record(@, [rule |-> f.rule, start |-> f.start,
                                         res |-> result]),
                                        ![Len(below)].stack = f.stack]
        /\ ret' = result
        /\ lastReturn' = [rule |-> f.rule, start |-> f.start, stack |-> Front(f.stack),
                          calls |-> f.calls, res |-> result]
        /\ log' = log \cup {[rule |-> f.rule, start |-> f.start, res |-> result]}
        /\ UNCHANGED <<pc, outcome, lastCall>>

\* the running frame's parseInternal returns `result` to its caller
Return(result) ==
    LET f == Top
        below == Front(frames)
    IN  /\ frames' = IF below = <<>> THEN below
                     ELSE [below EXCEPT ![Len(below)].calls =
                              Record(@, [rule |-> f.rule, start |-> f.start,
                                         res |-> result])]
        /\ ret' = result
        /\ lastReturn' = [rule |-> f.rule, start |-> f.start, stack |-> Front(f.stack),
                          calls |-> f.calls, res |-> result]
        /\ log' = log \cup {[rule |-> f.rule, start |-> f.start, res |-> result]}
        /\ UNCHANGED <<pc, outcome, lastCall>>

Op(o) == frames # <<>> /\ Top.rule.fn.op = o

\* whether the call the running frame waited for matched
Matched == Top.at = "wait" /\ ret.some

InFrame == UNCHANGED <<grammar, rules, input, rootIdx, best>>

(***************************************************************************)
(* What each parse function computes from the results of its calls.        *)
(***************************************************************************)
\* a token match that does not compare the key
TokenResultAnyKey(in, start, k) ==
    IF start >= Len(in) THEN NoResult
    ELSE ParseResult(Data(in[start + 1].data), start + 1)

\* token: lines 938-944
TokenResult(in, start, k) ==
    IF start >= Len(in) THEN NoResult
    ELSE LET tok == in[start + 1]
         IN  IF tok.key = k THEN ParseResult(Data(tok.data), start + 1) ELSE NoResult

\* a positive lookahead
NotResultInverted(result, start) ==
    IF result.some THEN ParseResult(Undefined, start) ELSE NoResult

\* not: result ? undefined : { value: undefined, end: start }
NotResult(result, start) ==
    IF result.some THEN NoResult ELSE ParseResult(Undefined, start)

\* a choice that goes on past a match
OrReturnsNegated(result) == ~result.some

\* or: the option whose result is returned, if (result) return result
OrReturns(result) == result.some

\* a longest-match choice in which a later option wins a tie
LongestOrEqual(longest, result) ==
    IF result.some /\ (~longest.some \/ result.end >= longest.end)
    THEN result ELSE longest

\* orLongest: if (result && (!longest || result.end > longest.end)) longest = result
Longest(longest, result) ==
    IF result.some /\ (~longest.some \/ result.end > longest.end)
    THEN result ELSE longest

\* a sequence that collects its values with unshift
RECURSIVE Reversed(_)
Reversed(q) == IF q = <<>> THEN <<>> ELSE Append(Reversed(Tail(q)), Head(q))

ConcatResultReversed(results, end) == ParseResult(Array(Reversed(results)), end)

\* concatInternal: return { value: results, end }
ConcatResult(results, end) == ParseResult(Array(results), end)

\* first: { value: value[0], end }
FirstResult(result) ==
    IF ~result.some THEN NoResult
    ELSE ParseResult(result.value.items[1], result.end)

\* last: { value: value[value.length - 1], end }
LastResult(result) ==
    IF ~result.some THEN NoResult
    ELSE ParseResult(result.value.items[Len(result.value.items)], result.end)

\* map: result && { value: f(result.value), end: result.end }
MapResult(result, f) ==
    IF ~result.some THEN NoResult
    ELSE ParseResult(ApplyFn(f, result.value), result.end)

\* filter, filterMap: result && f(result.value) ? result : undefined
FilterResult(result, f) ==
    IF result.some /\ Truthy(f, result.value) THEN result ELSE NoResult

\* an optional that passes a failure on
OptParseResultFailing(result, start) ==
    IF ~result.some THEN NoResult
    ELSE ParseResult(OptResult(TRUE, result.value), result.end)

\* opt: lines 860-864
OptParseResult(result, start) ==
    IF ~result.some THEN ParseResult(OptResult(FALSE, Undefined), start)
    ELSE ParseResult(OptResult(TRUE, result.value), result.end)

\* a repetition that returns the position the loop stopped at
RepResultAtStart(results, end, start, min, hasMax, max) ==
    IF Len(results) < min \/ (hasMax /\ Len(results) > max)
    THEN NoResult
    ELSE ParseResult(Array(results), start)

\* a repetition that cuts a long match down to max values
RepResultTruncated(results, end, start, min, hasMax, max) ==
    IF Len(results) < min THEN NoResult
    ELSE IF hasMax /\ Len(results) > max
    THEN ParseResult(Array(SubSeq(results, 1, max)), end)
    ELSE ParseResult(Array(results), end)

\* repInternal: lines 95-102, with start as the loop left it
RepResult(results, end, start, min, hasMax, max) ==
    IF Len(results) < min \/ (hasMax /\ Len(results) > max)
    THEN NoResult
    ELSE ParseResult(Array(results), end)

(***************************************************************************)
(* One step of the running frame, by the combinator that built its rule.   *)
(***************************************************************************)
TokenStep ==
    /\ Op("token")
    /\ Return(TokenResult(input, Top.start, Top.rule.fn.k))
    /\ InFrame

\* sub: this.p.rules[k] is read when the reference is parsed
SubStep ==
    /\ Op("sub")
    /\ IF Top.at = "entry"
       THEN Call(Top, rules[Top.rule.fn.k], Top.start)
       ELSE Return(ret)
    /\ InFrame

NotStep ==
    /\ Op("not")
    /\ IF Top.at = "entry"
       THEN Call(Top, Top.rule.fn.subs[1], Top.start)
       ELSE Return(NotResult(ret, Top.start))
    /\ InFrame

\* i counts the options already tried
OrStep ==
    /\ Op("or")
    /\ LET f == Top
           options == f.rule.fn.subs
       IN  IF f.at = "wait" /\ OrReturns(ret)
           THEN Return(ret)
           ELSE IF f.i < Len(options)
           THEN Call([f EXCEPT !.i = f.i + 1], options[f.i + 1], f.start)
           ELSE Return(NoResult)
    /\ InFrame

OrLongestStep ==
    /\ Op("orLongest")
    /\ LET f == Top
           options == f.rule.fn.subs
           longest == IF f.at = "wait" THEN Longest(f.longest, ret) ELSE f.longest
       IN  IF f.i < Len(options)
           THEN Call([f EXCEPT !.i = f.i + 1, !.longest = longest],
                     options[f.i + 1], f.start)
           ELSE Return(longest)
    /\ InFrame

ConcatStep ==
    /\ Op("concat")
    /\ LET f == Top
           rs == f.rule.fn.subs
           results == IF Matched THEN Push(f.results, ret.value) ELSE f.results
           end == IF Matched THEN ret.end ELSE f.end
       IN  IF f.at = "wait" /\ ~ret.some
           THEN Return(NoResult)
           ELSE IF f.i < Len(rs)
           THEN Call([f EXCEPT !.i = f.i + 1, !.results = results, !.end = end],
                     rs[f.i + 1], end)
           ELSE Return(ConcatResult(results, end))
    /\ InFrame

FirstStep ==
    /\ Op("first")
    /\ IF Top.at = "entry"
       THEN Call(Top, Top.rule.fn.subs[1], Top.start)
       ELSE Return(FirstResult(ret))
    /\ InFrame

LastStep ==
    /\ Op("last")
    /\ IF Top.at = "entry"
       THEN Call(Top, Top.rule.fn.subs[1], Top.start)
       ELSE Return(LastResult(ret))
    /\ InFrame

MapStep ==
    /\ Op("map")
    /\ IF Top.at = "entry"
       THEN Call(Top, Top.rule.fn.subs[1], Top.start)
       ELSE Return(MapResult(ret, Top.rule.fn.k))
    /\ InFrame

FilterStep ==
    /\ Op("filter")
    /\ IF Top.at = "entry"
       THEN Call(Top, Top.rule.fn.subs[1], Top.start)
       ELSE Return(FilterResult(ret, Top.rule.fn.k))
    /\ InFrame

FilterMapStep ==
    /\ Op("filterMap")
    /\ IF Top.at = "entry"
       THEN Call(Top, Top.rule.fn.subs[1], Top.start)
       ELSE Return(FilterResult(ret, Top.rule.fn.k))
    /\ InFrame

OptStep ==
    /\ Op("opt")
    /\ IF Top.at = "entry"
       THEN Call(Top, Top.rule.fn.subs[1], Top.start)
       ELSE Return(OptParseResult(ret, Top.start))
    /\ InFrame

\* repInternal: phase names the call being waited for: the first element
\* (line 75), a separator (line 83) or a further element (line 88); cur is
\* the local `start` as the loop reassigns it.
RepStep ==
    /\ Op("rep")
    /\ LET f == Top
           fn == f.rule.fn
           rule == fn.subs[1]
           hasSep == Len(fn.subs) = 2
           pushed == [f EXCEPT !.results = Push(f.results, ret.value), !.end = ret.end,
                               !.cur = ret.end]
       IN  IF f.at = "entry"
           THEN Call([f EXCEPT !.phase = "first"], rule, f.start)
           ELSE IF ~ret.some
           THEN Return(RepResult(f.results, f.end, f.cur, fn.min, fn.hasMax, fn.max))
           ELSE IF f.phase = "sep"
           THEN Call([f EXCEPT !.phase = "elem", !.cur = ret.end], rule, ret.end)
           ELSE IF hasSep
           THEN Call([pushed EXCEPT !.phase = "sep"], fn.subs[2], ret.end)
           ELSE Call([pushed EXCEPT !.phase = "elem"], rule, ret.end)
    /\ InFrame

(***************************************************************************)
(* The Parser: its constructor and Parser.parse.                           *)
(***************************************************************************)
\* lines 973-976: getRules has returned; every rule is re-tagged with its key
Retag(built) == [key \in DOMAIN built |-> withName(built[key], key)]

Constructor ==
    /\ pc = "new"
    /\ rules' = Retag(Grammar(grammar).getRules)
    /\ pc' = "ready"
    /\ UNCHANGED <<grammar, input, rootIdx, best, frames, ret, outcome, lastCall,
                   lastReturn, log>>

roots == Grammar(grammar).roots

\* Parser.parse(input) is called: let best
ParseBegin ==
    /\ pc = "ready"
    /\ \E in \in Inputs : input' = in
    /\ best' = NoResult
    /\ rootIdx' = 1
    /\ pc' = "roots"
    /\ UNCHANGED <<grammar, rules, frames, ret, outcome, lastCall, lastReturn, log>>

\* line 982: this.rules[root].parse(input, 0, [])
ParseRoot ==
    /\ pc = "roots"
    /\ rootIdx <= Len(roots)
    /\ Invoke(<<>>, rules[roots[rootIdx]], 0, <<>>, "root")
    /\ UNCHANGED <<grammar, rules, input, rootIdx, best>>

\* a selection in which a later root wins a tie
BestOrEqual(b, result) ==
    IF result.some /\ (~b.some \/ result.end >= b.end) THEN result ELSE b

\* line 983
Best(b, result) ==
    IF result.some /\ (~b.some \/ result.end > b.end) THEN result ELSE b

ParseRootDone ==
    /\ pc = "root"
    /\ frames = <<>>
    /\ best' = Best(best, ret)
    /\ rootIdx' = rootIdx + 1
    /\ pc' = "roots"
    /\ UNCHANGED <<grammar, rules, input, frames, ret, outcome, lastCall, lastReturn,
                   log>>

\* a driver that does not check for trailing input
ParseOutcomePartial(b, in) ==
    IF ~b.some THEN Error("Failed to parse", <<>>) ELSE Returned(b.value)

\* lines 987-996
ParseOutcome(b, in) ==
    IF ~b.some THEN Error("Failed to parse", <<>>)
    ELSE IF b.end < Len(in)
    THEN Error("Not all tokens were consumed: ", <<JSONstringify(in[b.end + 1])>>)
    ELSE Returned(b.value)

ParseEnd ==
    /\ pc = "roots"
    /\ rootIdx > Len(roots)
    /\ outcome' = ParseOutcome(best, input)
    /\ pc' = "done"
    /\ UNCHANGED <<grammar, rules, input, rootIdx, best, frames, ret, lastCall,
                   lastReturn, log>>

NoCall == [rule |-> token(""), start |-> 0, stack |-> <<>>]

NoReturn == [rule |-> token(""), start |-> 0, stack |-> <<>>, calls |-> <<>>,
             res |-> NoResult]

Init ==
    /\ grammar \in GrammarNames
    /\ rules = <<>>
    /\ input = <<>>
    /\ pc = "new"
    /\ rootIdx = 1
    /\ best = NoResult
    /\ frames = <<>>
    /\ ret = NoResult
    /\ outcome = Running
    /\ lastCall = NoCall
    /\ lastReturn = NoReturn
    /\ log = {}

Next ==
    \/ Constructor
    \/ ParseBegin
    \/ ParseRoot
    \/ ParseRootDone
    \/ ParseEnd
    \/ TokenStep
    \/ SubStep
    \/ NotStep
    \/ OrStep
    \/ OrLongestStep
    \/ ConcatStep
    \/ FirstStep
    \/ LastStep
    \/ MapStep
    \/ FilterStep
    \/ FilterMapStep
    \/ OptStep
    \/ RepStep

Spec == Init /\ [][Next]_vars

\* Parser.parse is synchronous code: once called it keeps running.
FairSpec == Spec /\ WF_vars(Next)

(***************************************************************************)
(* Observations the claims are stated over.                                *)
(***************************************************************************)
LoopDetected == outcome.kind = "error" /\ outcome.message = "Loop detected:"

ParseFailed == outcome.kind = "error" /\ outcome.message = "Failed to parse"

TrailingInput ==
    outcome.kind = "error" /\ outcome.message = "Not all tokens were consumed: "

\* Parser.parse has ended without a loop error
Finished == pc = "done" /\ ~LoopDetected

NoDuplicates(s) == \A i, j \in 1..Len(s) : s[i] = s[j] => i = j

\* what the i-th root returned when the driver invoked it at offset 0
RootReturns(i) == {e \in log : e.rule = rules[roots[i]] /\ e.start = 0}

RootResult(i) == (CHOOSE e \in RootReturns(i) : TRUE).res

\* the roots among the first n that matched, and the one the claims select:
\* the earliest-listed among those with the greatest end offset
MatchingRoots(n) == {i \in 1..n : RootResult(i).some}

SelectedRoot(n) ==
    CHOOSE i \in MatchingRoots(n) :
        \A j \in MatchingRoots(n) :
            \/ RootResult(j).end < RootResult(i).end
            \/ (RootResult(j).end = RootResult(i).end /\ i <= j)

D1 == Token("digit", "1")

D2 == Token("digit", "2")

LX == Token("letter", "x")

SC == Token("sep", ",")

(***************************************************************************)
(* C1: a rule invoked at an offset while its item (name:offset) is on the  *)
(* path it is given raises the loop error, which carries the path in order *)
(* followed by the offending item; its parse function is not run (no frame *)
(* ever holds a path with a repeated item); and the error ends the whole   *)
(* Parser.parse: no frame survives it, no later root is tried, nothing is  *)
(* returned.                                                               *)
(***************************************************************************)
LoopGuard ==
    LET item == lastCall.rule.name \o ":" \o ToString(lastCall.start)
        path == lastCall.stack
        onPath == \E i \in 1..Len(path) : path[i] = item
    IN  /\ \A i \in 1..Len(frames) : NoDuplicates(frames[i].stack)
        /\ onPath =>
             /\ LoopDetected
             /\ pc = "done"
             /\ frames = <<>>
             /\ Len(outcome.detail) = Len(path) + 1
             /\ \A i \in 1..Len(path) :
                   outcome.detail[i] = [tag |-> "*", data |-> path[i], items |-> <<>>]
             /\ outcome.detail[Len(path) + 1] = [tag |-> ">", data |-> item, items |-> <<>>]
        /\ LoopDetected => onPath /\ outcome.value = Undefined

\* a loop reached through opt, not, star, or, first, concat, map, filter and
\* orLongest, with a second root still untried
LoopGuardWitness ==
    /\ LoopDetected
    /\ grammar = "nested"
    /\ rootIdx < Len(roots)
    /\ lastCall.rule = rules["Z"]
    /\ Len(lastCall.stack) > 9

(***************************************************************************)
(* C2 (as stated): when no loop is detected Parser.parse raises "parse     *)
(* failed" iff no root matches at offset 0, raises the trailing-input      *)
(* error iff the selected end is less than the input length, that error    *)
(* identifying the first unconsumed token and its position, and otherwise  *)
(* returns the selected value.                                             *)
(***************************************************************************)
DriverOutcomeCases ==
    Finished =>
      /\ \A i \in 1..Len(roots) : RootReturns(i) # {}
      /\ ParseFailed <=> MatchingRoots(Len(roots)) = {}
      /\ MatchingRoots(Len(roots)) # {} =>
           LET sel == RootResult(SelectedRoot(Len(roots)))
           IN  /\ TrailingInput <=> sel.end < Len(input)
               /\ TrailingInput => outcome.detail = <<JSONstringify(input[sel.end + 1])>>
               /\ ~TrailingInput => outcome = Returned(sel.value) /\ sel.end = Len(input)
      /\ outcome.kind = "return" => best.some /\ best.end = Len(input)

DriverOutcomeExamples ==
    (Finished /\ grammar = "digits") =>
      /\ input = <<D1, D2, D1>> =>
           outcome = Returned(Array(<<Data("1"), Data("2"), Data("1")>>))
      /\ input = <<D1, D2, LX>> =>
           /\ TrailingInput
           /\ best.end = 2
           /\ outcome.detail = <<JSONstringify(LX)>>
      /\ input = <<>> => ParseFailed

PositionReported ==
    \E i \in 1..Len(outcome.detail) :
        outcome.detail[i] = [tag |-> "index", data |-> ToString(best.end), items |-> <<>>]

DriverOutcomesWithPosition ==
    /\ DriverOutcomeCases
    /\ DriverOutcomeExamples
    /\ (Finished /\ TrailingInput) => PositionReported

(***************************************************************************)
(* C2 (amended): as above, except that the trailing-input error carries    *)
(* the first unconsumed token (input[end]) only: its message interpolates  *)
(* JSON.stringify(input[end]) and not the position.                        *)
(***************************************************************************)
DriverOutcomes ==
    /\ DriverOutcomeCases
    /\ DriverOutcomeExamples
    /\ (Finished /\ TrailingInput) => Len(outcome.detail) = 1 /\ ~PositionReported

DriverOutcomesWitness ==
    /\ Finished
    /\ grammar = "digits"
    /\ input = <<D1, D2, LX>>
    /\ TrailingInput

(***************************************************************************)
(* C3: Parser.parse invokes the roots in listed order, each at offset 0    *)
(* with an empty path; after n roots `best` is the result of the earliest  *)
(* listed among the matching roots with the greatest end offset; and a     *)
(* registry rule orLongest(sub(r1), ..., sub(rn)) over the roots before it *)
(* returns, at offset 0, exactly that selection.                           *)
(***************************************************************************)
RootSelection ==
    /\ (pc = "root" /\ frames # <<>>) =>
          /\ frames[1].rule = rules[roots[rootIdx]]
          /\ frames[1].start = 0
          /\ frames[1].stack = <<roots[rootIdx] \o ":0">>
    /\ (pc = "roots" \/ Finished) =>
          LET n == rootIdx - 1
          IN  /\ \A i \in 1..n : RootReturns(i) # {}
              /\ best = IF MatchingRoots(n) = {} THEN NoResult
                        ELSE RootResult(SelectedRoot(n))
    /\ Finished => rootIdx = Len(roots) + 1
    /\ (pc = "root" /\ frames = <<>> /\ rootIdx > 1
          /\ rules[roots[rootIdx]].fn.op = "orLongest"
          /\ rules[roots[rootIdx]].fn.subs = [i \in 1..(rootIdx - 1) |-> sub(roots[i])])
       => ret = best

\* two roots tie on the greatest end offset and the earlier one is kept,
\* as the registry's orLongest over them keeps it
RootSelectionWitness ==
    /\ pc = "root"
    /\ frames = <<>>
    /\ grammar = "roots"
    /\ rootIdx = 3
    /\ RootResult(1).some /\ RootResult(2).some
    /\ RootResult(1).end = RootResult(2).end
    /\ RootResult(1).value # RootResult(2).value
    /\ best = RootResult(1)
    /\ ret = best

(***************************************************************************)
(* C4: every Parser.parse terminates (with a value, "parse failed",        *)
(* trailing input, or the loop error).                                     *)
(***************************************************************************)
Terminates == <>(pc = "done")

(***************************************************************************)
(* The invocation that returned last (lastReturn) and the calls it made.   *)
(***************************************************************************)
Ret == lastReturn

RetOp == Ret.rule.fn.op

RetSubs == Ret.rule.fn.subs

NCalls == Len(Ret.calls)

\* every call was made at the invocation's own start offset
CallsAtStart == \A j \in 1..NCalls : Ret.calls[j].start = Ret.start

\* a repetition's calls are element, (separator, element)*
HasSep == Len(RetSubs) = 2

IsElement(j) == ~HasSep \/ j % 2 = 1

\* the index among the calls of the j-th element attempt
ElementCall(j) == IF HasSep THEN 2 * j - 1 ELSE j

\* the number of elements the repetition matched
MatchedCount == Cardinality({j \in 1..NCalls : IsElement(j) /\ Ret.calls[j].res.some})

\* the last element attempt failed after its separator matched
Dangling ==
    /\ HasSep
    /\ NCalls >= 3
    /\ IsElement(NCalls)
    /\ ~Ret.calls[NCalls].res.some
    /\ Ret.calls[NCalls - 1].res.some

(***************************************************************************)
(* C5: a successful repetition returns the matched elements' values in     *)
(* match order and the end of the last matched element; when a separator   *)
(* matched and the element after it failed, that end is the position       *)
(* before the separator attempt and nothing is appended for it.            *)
(* star(Digit, Sep) over [1 ,] returns [1] with end 1.                     *)
(***************************************************************************)
DanglingSeparator ==
    /\ (RetOp = "rep" /\ Ret.res.some) =>
         /\ Ret.res.value =
               Array([j \in 1..MatchedCount |-> Ret.calls[ElementCall(j)].res.value])
         /\ Ret.res.end = IF MatchedCount = 0 THEN Ret.start
                          ELSE Ret.calls[ElementCall(MatchedCount)].res.end
         /\ Dangling =>
              /\ Ret.res.end = Ret.calls[NCalls - 1].start
              /\ Ret.res.end = Ret.calls[NCalls - 2].res.end
              /\ Len(Ret.res.value.items) = (NCalls - 1) \div 2
    /\ (grammar = "list" /\ input = <<D1, SC>> /\ Ret.rule.name = "List") =>
         Ret.res = ParseResult(Array(<<Data("1")>>), 1)

DanglingSeparatorWitness ==
    /\ RetOp = "rep"
    /\ Ret.res.some
    /\ Dangling
    /\ Ret.calls[NCalls - 1].res.end > Ret.res.end
    /\ grammar = "list"
    /\ input = <<D1, SC>>

(***************************************************************************)
(* C6: a repetition matches greedily (it stops only at a call that fails)  *)
(* and then succeeds iff the matched count n has min <= n and, when max is *)
(* defined, n <= max; a success holds all n values, never fewer.  With no  *)
(* match, star succeeds with the empty sequence at its start offset and    *)
(* plus fails.                                                             *)
(***************************************************************************)
RepetitionBounds ==
    RetOp = "rep" =>
      LET fn == Ret.rule.fn
          n == MatchedCount
      IN  /\ NCalls >= 1
          /\ ~Ret.calls[NCalls].res.some
          /\ \A j \in 1..(NCalls - 1) : Ret.calls[j].res.some
          /\ Ret.res.some <=> (fn.min <= n /\ (fn.hasMax => n <= fn.max))
          /\ Ret.res.some => Len(Ret.res.value.items) = n
          /\ (n = 0 /\ fn.min = 0) => Ret.res = ParseResult(Array(<<>>), Ret.start)
          /\ (n = 0 /\ fn.min = 1 /\ ~fn.hasMax) => ~Ret.res.some

\* rep(Digit, 0, 2) over three digits fails
RepetitionBoundsWitness ==
    /\ RetOp = "rep"
    /\ Ret.rule.fn.hasMax
    /\ Ret.rule.fn.max = 2
    /\ Ret.rule.fn.min = 0
    /\ MatchedCount = 3
    /\ ~Ret.res.some

(***************************************************************************)
(* C7: or calls its options in listed order, all at its start offset,      *)
(* stops at the first that matches and returns that result unchanged, and  *)
(* fails iff it has called every option and all failed.                    *)
(***************************************************************************)
OrderedChoice ==
    RetOp = "or" =>
      /\ NCalls >= 1
      /\ NCalls <= Len(RetSubs)
      /\ \A j \in 1..NCalls : Ret.calls[j].rule = RetSubs[j]
      /\ CallsAtStart
      /\ \A j \in 1..(NCalls - 1) : ~Ret.calls[j].res.some
      /\ IF Ret.calls[NCalls].res.some
         THEN Ret.res = Ret.calls[NCalls].res
         ELSE NCalls = Len(RetSubs) /\ Ret.res = NoResult

\* or(TwoDigits, ThreeDigits, ...) over three digits returns the two-digit
\* match and calls nothing else
OrderedChoiceWitness ==
    /\ RetOp = "or"
    /\ grammar = "choice"
    /\ input = <<D1, D2, D1>>
    /\ RetSubs[2] = ThreeDigits
    /\ NCalls = 1
    /\ Ret.res = ParseResult(Array(<<Data("1"), Data("2")>>), 2)

(***************************************************************************)
(* C8: orLongest calls every option, in order, at its start offset, and    *)
(* returns the result of the earliest-listed option among the matching     *)
(* ones with the greatest end offset; it fails iff no option matches.      *)
(***************************************************************************)
MatchingCalls == {j \in 1..NCalls : Ret.calls[j].res.some}

LongestCall ==
    CHOOSE j \in MatchingCalls :
        \A k \in MatchingCalls :
            \/ Ret.calls[k].res.end < Ret.calls[j].res.end
            \/ (Ret.calls[k].res.end = Ret.calls[j].res.end /\ j <= k)

LongestChoice ==
    /\ RetOp = "orLongest" =>
         /\ NCalls = Len(RetSubs)
         /\ \A j \in 1..NCalls : Ret.calls[j].rule = RetSubs[j]
         /\ CallsAtStart
         /\ Ret.res = IF MatchingCalls = {} THEN NoResult ELSE Ret.calls[LongestCall].res
    /\ (grammar = "longest" /\ Ret.rule.name = "Longest") =>
         /\ input = <<D1, D2, D1>> =>
              Ret.res = ParseResult(Array(<<Data("1"), Data("2"), Data("1")>>), 3)
         /\ input = <<D1, D2>> =>
              Ret.res = ParseResult(Array(<<Data("1"), Data("2")>>), 2)

\* two options match the same span with different values: the first is kept
LongestChoiceWitness ==
    /\ RetOp = "orLongest"
    /\ grammar = "longest"
    /\ Ret.calls[1].res.some
    /\ Ret.calls[3].res.some
    /\ ~Ret.calls[2].res.some
    /\ Ret.calls[1].res.end = Ret.calls[3].res.end
    /\ Ret.calls[1].res.value # Ret.calls[3].res.value
    /\ Ret.res = Ret.calls[1].res

(***************************************************************************)
(* C9: not(R) calls R once at its start offset; it succeeds exactly when R *)
(* fails, with the undefined value and end = start, and fails with no      *)
(* result when R matches.                                                  *)
(***************************************************************************)
NegativeLookahead ==
    RetOp = "not" =>
      /\ NCalls = 1
      /\ Ret.calls[1].rule = RetSubs[1]
      /\ CallsAtStart
      /\ Ret.res.some <=> ~Ret.calls[1].res.some
      /\ Ret.res.some => Ret.res = ParseResult(Undefined, Ret.start)
      /\ ~Ret.res.some => Ret.res = NoResult

\* R matched two tokens and not(R) failed
NegativeLookaheadWitness ==
    /\ RetOp = "not"
    /\ Ret.calls[1].res.some
    /\ Ret.calls[1].res.end = Ret.start + 2
    /\ ~Ret.res.some

ItemOf(rule, start) == rule.name \o ":" \o ToString(start)

PathIsActiveChain ==
    /\ \A i \in 1..Len(frames) :
          /\ frames[i].stack =
                [j \in 1..i |-> ItemOf(frames[j].rule, frames[j].start)]
          /\ NoDuplicates(frames[i].stack)
          /\ \A c \in 1..Len(frames[i].calls) :
                \A j \in 1..Len(frames[i].stack) :
                   frames[i].stack[j] #
                      ItemOf(frames[i].calls[c].rule, frames[i].calls[c].start)
    /\ (frames # <<>> /\ Top.at = "entry") =>
          /\ lastCall.rule = Top.rule
          /\ lastCall.start = Top.start
          /\ lastCall.stack = Front(Top.stack)
          /\ Len(frames) > 1 => lastCall.stack = frames[Len(frames) - 1].stack

\* the second option of an or is running at the offset at which the first,
\* which has the same item, has already returned
PathIsActiveChainWitness ==
    /\ grammar = "siblings"
    /\ Len(frames) > 1
    /\ frames[Len(frames) - 1].rule.fn.op = "or"
    /\ Top.at = "entry"
    /\ ~LoopDetected
    /\ LET caller == frames[Len(frames) - 1]
       IN  \E c \in 1..Len(caller.calls) :
              ItemOf(caller.calls[c].rule, caller.calls[c].start)
                 = ItemOf(Top.rule, Top.start)

(***************************************************************************)
(* C12: concat calls its rules in order, the first at its start offset and *)
(* each next one at the end offset the previous one returned, each at most *)
(* once; it fails at the first rule that fails, calling nothing after it   *)
(* and nothing again, and otherwise returns the list of the values with    *)
(* the last end.  concat(star(Digit), Digit) fails on digits only.  first  *)
(* and last match exactly when their concat matches, with its end, and     *)
(* return its first, respectively last, value.                             *)
(***************************************************************************)
AllDigits == \A i \in 1..Len(input) : input[i].key = "digit"

SequenceNoBacktracking ==
    /\ RetOp = "concat" =>
         /\ NCalls >= 1
         /\ NCalls <= Len(RetSubs)
         /\ \A j \in 1..NCalls : Ret.calls[j].rule = RetSubs[j]
         /\ Ret.calls[1].start = Ret.start
         /\ \A j \in 1..(NCalls - 1) :
               /\ Ret.calls[j].res.some
               /\ Ret.calls[j + 1].start = Ret.calls[j].res.end
         /\ IF Ret.calls[NCalls].res.some
            THEN /\ NCalls = Len(RetSubs)
                 /\ Ret.res.some
                 /\ Ret.res.value = Array([j \in 1..NCalls |-> Ret.calls[j].res.value])
                 /\ Ret.res.end = Ret.calls[NCalls].res.end
            ELSE Ret.res = NoResult
    /\ RetOp \in {"first", "last"} =>
         /\ NCalls = 1
         /\ Ret.calls[1].rule = RetSubs[1]
         /\ RetSubs[1].fn.op = "concat"
         /\ CallsAtStart
         /\ Ret.res.some <=> Ret.calls[1].res.some
         /\ Ret.res.some =>
              LET values == Ret.calls[1].res.value.items
              IN  /\ Ret.res.end = Ret.calls[1].res.end
                  /\ Ret.res.value = IF RetOp = "first" THEN values[1]
                                     ELSE values[Len(values)]
         /\ ~Ret.res.some => Ret.res = NoResult
    /\ (grammar = "greedy" /\ Ret.rule.name = "G" /\ AllDigits) => ~Ret.res.some

\* star(Digit) took both digits, the Digit after it failed at the end of the
\* input, and the sequence failed without a second attempt
SequenceNoBacktrackingWitness ==
    /\ RetOp = "concat"
    /\ grammar = "greedy"
    /\ Ret.rule.name = "G"
    /\ input = <<D1, D2>>
    /\ NCalls = 2
    /\ Ret.calls[1].res = ParseResult(Array(<<Data("1"), Data("2")>>), 2)
    /\ ~Ret.calls[2].res.some
    /\ ~Ret.res.some

(***************************************************************************)
(* C13: opt(R) calls R once at its start offset and always returns a       *)
(* result: when R matches, { success: true, value } with R's value and R's *)
(* end; when R does not, { success: false, value: undefined } with end     *)
(* equal to the start offset.                                              *)
(***************************************************************************)
OptionalAlwaysSucceeds ==
    RetOp = "opt" =>
      /\ NCalls = 1
      /\ Ret.calls[1].rule = RetSubs[1]
      /\ CallsAtStart
      /\ Ret.res.some
      /\ IF Ret.calls[1].res.some
         THEN /\ Ret.res.value = [tag |-> "opt", data |-> "true",
                                  items |-> <<Ret.calls[1].res.value>>]
              /\ Ret.res.end = Ret.calls[1].res.end
         ELSE /\ Ret.res.value = [tag |-> "opt", data |-> "false",
                                  items |-> <<Undefined>>]
              /\ Ret.res.end = Ret.start

\* R failed at an offset past the start of the input and opt(R) returned
\* the absent result there
OptionalAlwaysSucceedsWitness ==
    /\ RetOp = "opt"
    /\ Ret.start > 0
    /\ ~Ret.calls[1].res.some
    /\ Ret.res.some
    /\ Ret.res.end = Ret.start
    /\ Ret.res.value.data = "false"

(***************************************************************************)
(* C14: every rule is invoked at an offset in 0..n, n the length of the    *)
(* input, and a result it returns has start <= end <= n.  A token rule     *)
(* matches iff start < n and the token at start has its key, and then its  *)
(* end is start + 1; any other rule's end is its start or the end of a     *)
(* call it made.  The end the driver keeps never exceeds n.                *)
(***************************************************************************)
OffsetBounds ==
    LET n == Len(input)
    IN  /\ \A i \in 1..Len(frames) : frames[i].start \in 0..n
        /\ lastCall.start \in 0..n
        /\ Ret.start \in 0..n
        /\ Ret.res.some => (Ret.start <= Ret.res.end /\ Ret.res.end <= n)
        /\ RetOp = "token" =>
             /\ Ret.res.some <=>
                   (Ret.start < n /\ input[Ret.start + 1].key = Ret.rule.fn.k)
             /\ Ret.res.some =>
                   /\ Ret.res.end = Ret.start + 1
                   /\ Ret.res.value = Data(input[Ret.start + 1].data)
        /\ (RetOp # "token" /\ Ret.res.some) =>
             \/ Ret.res.end = Ret.start
             \/ \E c \in 1..NCalls :
                   Ret.calls[c].res.some /\ Ret.res.end = Ret.calls[c].res.end
        /\ best.some => best.end <= n
        /\ ret.some => ret.end <= n

\* a token rule has matched the last token and the same rule, invoked at the
\* end of the input, has failed
OffsetBoundsWitness ==
    /\ RetOp = "token"
    /\ Len(input) >= 2
    /\ Ret.start = Len(input)
    /\ ~Ret.res.some
    /\ \E e \in log :
          /\ e.rule = Ret.rule
          /\ e.start = Len(input) - 1
          /\ e.res.some
          /\ e.res.end = Len(input)

====
